---- MODULE Spec2Model ----
(***************************************************************************)
(* Session and rate-limit manager of OMAR-Backend.                         *)
(*   models/session.py            Sesion, EstadoSesion                     *)
(*   services/session_manager.py  GestorSesiones                           *)
(*   middleware/session_middleware.py  the decorators of the chat routes   *)
(*   app.py                       the session store and debounce of /ask   *)
(* Time is counted in whole seconds.  Every datetime.now() read inside one *)
(* call of an operation returns the same instant; the clock moves between  *)
(* calls (Tick).                                                           *)
(***************************************************************************)
EXTENDS Integers, Sequences, FiniteSets, TLC

\* ---------------------------------------------------------------- bounds
\* Number of session ids uuid4 hands out in a run.
MaxSesiones == 1
\* Constructor arguments of GestorSesiones (defaults 50 and 10), kept small.
max_interacciones == 3
limite_por_minuto == 2
\* Caller threads of the lock-level specification.
NumHilos == 2

\* ------------------------------------------------------ program constants
\* timedelta(hours=8) in seconds
VidaSegundos == 28800
\* timedelta(minutes=1) in seconds
SegundosVentana == 60
\* extend_session's default hours=2
HorasPorDefecto == 2

\* EstadoSesion
ACTIVA == "activa"
EXPIRADA == "expirada"
LIMITADA_POR_VELOCIDAD == "limitada"
BLOQUEADA == "bloqueada"
EstadoSesion == {ACTIVA, EXPIRADA, LIMITADA_POR_VELOCIDAD, BLOQUEADA}

\* ------------------------------------------------------------ input sets
Ids == 1..MaxSesiones
Usuarios == {"anonymous"}
\* interaction_type passed to track_interaction (its default)
Tipos == {"chat"}
\* hours passed to GestorSesiones.extend_session
Horas == {HorasPorDefecto}
\* instants the clock can show: 0, the end of the one-minute window that
\* starts at 0 and the expiry of a session created at 0, each of the last two
\* with the second that follows it
Instantes ==
  {0, SegundosVentana, SegundosVentana + 1, VidaSegundos, VidaSegundos + 1}
Hilos == 1..NumHilos
NoHilo == 0

VARIABLES
  sesiones,               \* self.sesiones: id -> Sesion
  seguimiento_velocidad,  \* self.seguimiento_velocidad: id -> list of instants
  siguiente_id,           \* next id uuid4 generates (ids are never reused)
  ahora,                  \* datetime.now()
  resultado,              \* what the last call returned and logged
  bloqueo,                \* self.bloqueo: the thread that holds it, or NoHilo
  pc,                     \* per thread: where it is in its call
  llamada,                \* per thread: the call it is making
  ent,                    \* a Sesion object used on its own
  ent_ret,                \* what the last method call on ent returned
  traza,                  \* history: the instants of the interactions accepted
                          \* for each id and the last rate-limit refusal
  sessions,               \* app.py, sessions: session id -> session record
  registros,              \* app.py: the session records ever made (the dict
                          \* objects get_or_create_session builds), by number
  peticiones,             \* app.py, per thread: the request it is serving
  respuesta               \* app.py: the last response sent

app == <<sessions, registros, peticiones, respuesta>>
vars == <<sesiones, seguimiento_velocidad, siguiente_id, ahora, resultado,
          bloqueo, pc, llamada, ent, ent_ret, traza, app>>
gestor == <<sesiones, seguimiento_velocidad, siguiente_id, resultado>>
hilos == <<bloqueo, pc, llamada>>
entidad == <<ent, ent_ret>>

\* ------------------------------------------------------------ dictionaries
Quitar(f, k) == [x \in (DOMAIN f) \ {k} |-> f[x]]
Poner(f, k, v) == [x \in (DOMAIN f) \cup {k} |-> IF x = k THEN v ELSE f[x]]
Vacio == [x \in {} |-> 0]

\* ------------------------------------------------------------------ Sesion
\* Sesion.__init__
Sesion(id_usuario, now) ==
  [id_usuario |-> id_usuario,
   creada_en |-> now,
   expira_en |-> now + VidaSegundos,
   contador_interacciones |-> 0,
   estado |-> ACTIVA,
   ultima_actividad |-> now,
   metadatos |-> Vacio]

\* es_valida that never looks at the clock
es_valida_sin_reloj(s, now) ==
  IF s.estado # ACTIVA
    THEN [ok |-> FALSE, ses |-> s]
    ELSE [ok |-> TRUE, ses |-> s]

\* es_valida that looks at the clock only
es_valida_sin_estado(s, now) ==
  IF now > s.expira_en
    THEN [ok |-> FALSE, ses |-> [s EXCEPT !.estado = EXPIRADA]]
    ELSE [ok |-> TRUE, ses |-> s]

\* es_valida that also refreshes ultima_actividad
es_valida_toca_actividad(s, now) ==
  IF now > s.expira_en
    THEN [ok |-> FALSE,
          ses |-> [s EXCEPT !.estado = EXPIRADA, !.ultima_actividad = now]]
    ELSE IF s.estado # ACTIVA
      THEN [ok |-> FALSE, ses |-> s]
      ELSE [ok |-> TRUE, ses |-> s]

\* Sesion.es_valida: the answer and the object as the call leaves it
es_valida(s, now) ==
  IF now > s.expira_en
    THEN [ok |-> FALSE, ses |-> [s EXCEPT !.estado = EXPIRADA]]
    ELSE IF s.estado # ACTIVA
      THEN [ok |-> FALSE, ses |-> s]
      ELSE [ok |-> TRUE, ses |-> s]

\* incrementar_interaccion that counts the call it refuses
incrementar_interaccion_cuenta_rechazo(s, max, now) ==
  IF s.contador_interacciones >= max
    THEN [ok |-> FALSE,
          ses |-> [s EXCEPT !.contador_interacciones = @ + 1,
                            !.estado = LIMITADA_POR_VELOCIDAD]]
    ELSE [ok |-> TRUE,
          ses |-> [s EXCEPT !.contador_interacciones = @ + 1,
                            !.ultima_actividad = now]]

\* incrementar_interaccion with > for >=
incrementar_interaccion_mayor(s, max, now) ==
  IF s.contador_interacciones > max
    THEN [ok |-> FALSE, ses |-> [s EXCEPT !.estado = LIMITADA_POR_VELOCIDAD]]
    ELSE [ok |-> TRUE,
          ses |-> [s EXCEPT !.contador_interacciones = @ + 1,
                            !.ultima_actividad = now]]

\* incrementar_interaccion that refuses at the cap and leaves estado alone
incrementar_interaccion_sin_estado(s, max, now) ==
  IF s.contador_interacciones >= max
    THEN [ok |-> FALSE, ses |-> s]
    ELSE [ok |-> TRUE,
          ses |-> [s EXCEPT !.contador_interacciones = @ + 1,
                            !.ultima_actividad = now]]

\* Sesion.incrementar_interaccion
incrementar_interaccion(s, max, now) ==
  IF s.contador_interacciones >= max
    THEN [ok |-> FALSE, ses |-> [s EXCEPT !.estado = LIMITADA_POR_VELOCIDAD]]
    ELSE [ok |-> TRUE,
          ses |-> [s EXCEPT !.contador_interacciones = @ + 1,
                            !.ultima_actividad = now]]

\* extender_sesion that also makes the session Active again
extender_sesion_reactiva(s, horas, now) ==
  [s EXCEPT !.expira_en = @ + horas * 3600, !.ultima_actividad = now,
            !.estado = ACTIVA]

\* Sesion.extender_sesion
extender_sesion(s, horas, now) ==
  [s EXCEPT !.expira_en = @ + horas * 3600, !.ultima_actividad = now]

\* Sesion.agregar_metadatos
agregar_metadatos(s, clave, valor) ==
  [s EXCEPT !.metadatos = Poner(@, clave, valor)]

\* ---------------------------------------------------------- GestorSesiones
\* Every operation is written as the effect of its body on the registry S and
\* the rate-window index R at instant now:
\*   ses, rt: the registry and the index afterwards
\*   ok: the truth value of what it returns
\*   log: the last logger line it emits (validate_session's line for an
\*        invalid session names the status es_valida left)
\*   n: a number it returns (0 when it returns none)

\* create_session that does not start the session's rate window
create_session_sin_ventana(S, R, sid, id_usuario, now) ==
  [ses |-> Poner(S, sid, Sesion(id_usuario, now)),
   rt |-> R,
   ok |-> TRUE, log |-> "created", n |-> 0]

\* GestorSesiones.create_session
create_session(S, R, sid, id_usuario, now) ==
  [ses |-> Poner(S, sid, Sesion(id_usuario, now)),
   rt |-> Poner(R, sid, <<>>),
   ok |-> TRUE, log |-> "created", n |-> 0]

\* validate_session that looks up the rate window of an id it does not find:
\* the defaultdict makes an empty window for it
validate_session_abre_ventana(S, R, sid, now) ==
  IF sid \notin DOMAIN S
    THEN [ses |-> S, rt |-> Poner(R, sid, <<>>),
          ok |-> FALSE, log |-> "not_found", n |-> 0]
    ELSE LET v == es_valida(S[sid], now) IN
      IF ~v.ok
        THEN [ses |-> Quitar(S, sid),
              rt |-> IF sid \in DOMAIN R THEN Quitar(R, sid) ELSE R,
              ok |-> FALSE, log |-> "invalid_" \o v.ses.estado, n |-> 0]
        ELSE [ses |-> Poner(S, sid, v.ses), rt |-> R,
              ok |-> TRUE, log |-> "valid", n |-> 0]

\* validate_session that forgets the rate window of the session it removes
validate_session_deja_ventana(S, R, sid, now) ==
  IF sid \notin DOMAIN S
    THEN [ses |-> S, rt |-> R, ok |-> FALSE, log |-> "not_found", n |-> 0]
    ELSE LET v == es_valida(S[sid], now) IN
      IF ~v.ok
        THEN [ses |-> Quitar(S, sid), rt |-> R,
              ok |-> FALSE, log |-> "invalid_" \o v.ses.estado, n |-> 0]
        ELSE [ses |-> Poner(S, sid, v.ses), rt |-> R,
              ok |-> TRUE, log |-> "valid", n |-> 0]

\* validate_session that removes a session only when it has expired
validate_session_solo_expiradas(S, R, sid, now) ==
  IF sid \notin DOMAIN S
    THEN [ses |-> S, rt |-> R, ok |-> FALSE, log |-> "not_found", n |-> 0]
    ELSE LET v == es_valida(S[sid], now) IN
      IF ~v.ok /\ now > S[sid].expira_en
        THEN [ses |-> Quitar(S, sid),
              rt |-> IF sid \in DOMAIN R THEN Quitar(R, sid) ELSE R,
              ok |-> FALSE, log |-> "invalid_" \o v.ses.estado, n |-> 0]
        ELSE [ses |-> Poner(S, sid, v.ses), rt |-> R,
              ok |-> v.ok,
              log |-> IF v.ok THEN "valid" ELSE "invalid_" \o v.ses.estado,
              n |-> 0]

\* GestorSesiones.validate_session
validate_session(S, R, sid, now) ==
  IF sid \notin DOMAIN S
    THEN [ses |-> S, rt |-> R, ok |-> FALSE, log |-> "not_found", n |-> 0]
    ELSE LET v == es_valida(S[sid], now) IN
      IF ~v.ok
        THEN [ses |-> Quitar(S, sid),
              rt |-> IF sid \in DOMAIN R THEN Quitar(R, sid) ELSE R,
              ok |-> FALSE, log |-> "invalid_" \o v.ses.estado, n |-> 0]
        ELSE [ses |-> Poner(S, sid, v.ses), rt |-> R,
              ok |-> TRUE, log |-> "valid", n |-> 0]

\* _check_rate_limit with <= for <
check_rate_limit_menor_igual(R, sid, now) ==
  LET hace_un_minuto == now - SegundosVentana
      lista == IF sid \in DOMAIN R THEN R[sid] ELSE <<>>
      recientes == SelectSeq(lista, LAMBDA req : req > hace_un_minuto)
  IN [rt |-> Poner(R, sid, recientes),
      ok |-> Len(recientes) <= limite_por_minuto]

\* _check_rate_limit that counts the requests of the current wall-clock minute
check_rate_limit_por_cubeta(R, sid, now) ==
  LET lista == IF sid \in DOMAIN R THEN R[sid] ELSE <<>>
      recientes == SelectSeq(lista, LAMBDA req :
                     req \div SegundosVentana = now \div SegundosVentana)
  IN [rt |-> Poner(R, sid, recientes),
      ok |-> Len(recientes) < limite_por_minuto]

\* GestorSesiones._check_rate_limit (seguimiento_velocidad is a
\* defaultdict(list): reading a missing key yields the empty list)
check_rate_limit(R, sid, now) ==
  LET hace_un_minuto == now - SegundosVentana
      lista == IF sid \in DOMAIN R THEN R[sid] ELSE <<>>
      recientes == SelectSeq(lista, LAMBDA req : req > hace_un_minuto)
  IN [rt |-> Poner(R, sid, recientes),
      ok |-> Len(recientes) < limite_por_minuto]

\* "last_<interaction_type>"
ClaveUltima(tipo) == "last_" \o tipo

\* track_interaction that counts the interaction before the rate check
track_interaction_cuenta_antes(S, R, sid, tipo, now) ==
  LET v == validate_session(S, R, sid, now) IN
  IF ~v.ok
    THEN [v EXCEPT !.ok = FALSE]
    ELSE LET i == incrementar_interaccion(v.ses[sid], max_interacciones, now)
             c == check_rate_limit(v.rt, sid, now) IN
      IF ~i.ok
        THEN [ses |-> Poner(v.ses, sid, i.ses), rt |-> v.rt,
              ok |-> FALSE, log |-> "interaction_limit_exceeded", n |-> 0]
        ELSE IF ~c.ok
          THEN [ses |-> Poner(v.ses, sid,
                          [i.ses EXCEPT !.estado = LIMITADA_POR_VELOCIDAD]),
                rt |-> c.rt, ok |-> FALSE, log |-> "rate_limit_exceeded",
                n |-> 0]
          ELSE [ses |-> Poner(v.ses, sid,
                          agregar_metadatos(i.ses, ClaveUltima(tipo), now)),
                rt |-> Poner(c.rt, sid, Append(c.rt[sid], now)),
                ok |-> TRUE, log |-> "tracked", n |-> 0]

\* track_interaction that leaves the metadata alone
track_interaction_sin_metadatos(S, R, sid, tipo, now) ==
  LET v == validate_session(S, R, sid, now) IN
  IF ~v.ok
    THEN [v EXCEPT !.ok = FALSE]
    ELSE LET c == check_rate_limit(v.rt, sid, now) IN
      IF ~c.ok
        THEN [ses |-> Poner(v.ses, sid,
                        [v.ses[sid] EXCEPT !.estado = LIMITADA_POR_VELOCIDAD]),
              rt |-> c.rt, ok |-> FALSE, log |-> "rate_limit_exceeded",
              n |-> 0]
        ELSE LET i == incrementar_interaccion(v.ses[sid], max_interacciones,
                                              now) IN
          IF ~i.ok
            THEN [ses |-> Poner(v.ses, sid, i.ses), rt |-> c.rt,
                  ok |-> FALSE, log |-> "interaction_limit_exceeded", n |-> 0]
            ELSE [ses |-> Poner(v.ses, sid, i.ses),
                  rt |-> Poner(c.rt, sid, Append(c.rt[sid], now)),
                  ok |-> TRUE, log |-> "tracked", n |-> 0]

\* track_interaction that examines the interaction cap before the rate limit
track_interaction_tope_antes(S, R, sid, tipo, now) ==
  LET v == validate_session(S, R, sid, now) IN
  IF ~v.ok
    THEN [v EXCEPT !.ok = FALSE]
    ELSE LET i == incrementar_interaccion(v.ses[sid], max_interacciones,
                                          now)
             c == check_rate_limit(v.rt, sid, now) IN
      IF ~i.ok
        THEN [ses |-> Poner(v.ses, sid, i.ses), rt |-> v.rt,
              ok |-> FALSE, log |-> "interaction_limit_exceeded", n |-> 0]
        ELSE IF ~c.ok
          THEN [ses |-> Poner(v.ses, sid,
                          [v.ses[sid] EXCEPT
                             !.estado = LIMITADA_POR_VELOCIDAD]),
                rt |-> c.rt, ok |-> FALSE, log |-> "rate_limit_exceeded",
                n |-> 0]
          ELSE [ses |-> Poner(v.ses, sid,
                          agregar_metadatos(i.ses, ClaveUltima(tipo), now)),
                rt |-> Poner(c.rt, sid, Append(c.rt[sid], now)),
                ok |-> TRUE, log |-> "tracked", n |-> 0]

\* track_interaction that records the timestamp of a call refused at the cap
track_interaction_anade_rechazada(S, R, sid, tipo, now) ==
  LET v == validate_session(S, R, sid, now) IN
  IF ~v.ok
    THEN [v EXCEPT !.ok = FALSE]
    ELSE LET c == check_rate_limit(v.rt, sid, now) IN
      IF ~c.ok
        THEN [ses |-> Poner(v.ses, sid,
                        [v.ses[sid] EXCEPT !.estado = LIMITADA_POR_VELOCIDAD]),
              rt |-> c.rt, ok |-> FALSE, log |-> "rate_limit_exceeded",
              n |-> 0]
        ELSE LET i == incrementar_interaccion(v.ses[sid], max_interacciones,
                                              now) IN
          IF ~i.ok
            THEN [ses |-> Poner(v.ses, sid, i.ses),
                  rt |-> Poner(c.rt, sid, Append(c.rt[sid], now)),
                  ok |-> FALSE, log |-> "interaction_limit_exceeded", n |-> 0]
            ELSE [ses |-> Poner(v.ses, sid,
                            agregar_metadatos(i.ses, ClaveUltima(tipo), now)),
                  rt |-> Poner(c.rt, sid, Append(c.rt[sid], now)),
                  ok |-> TRUE, log |-> "tracked", n |-> 0]

\* GestorSesiones.track_interaction
track_interaction(S, R, sid, tipo, now) ==
  LET v == validate_session(S, R, sid, now) IN
  IF ~v.ok
    THEN [v EXCEPT !.ok = FALSE]
    ELSE LET c == check_rate_limit(v.rt, sid, now) IN
      IF ~c.ok
        THEN [ses |-> Poner(v.ses, sid,
                        [v.ses[sid] EXCEPT !.estado = LIMITADA_POR_VELOCIDAD]),
              rt |-> c.rt, ok |-> FALSE, log |-> "rate_limit_exceeded",
              n |-> 0]
        ELSE LET i == incrementar_interaccion(v.ses[sid], max_interacciones,
                                              now) IN
          IF ~i.ok
            THEN [ses |-> Poner(v.ses, sid, i.ses), rt |-> c.rt,
                  ok |-> FALSE, log |-> "interaction_limit_exceeded", n |-> 0]
            ELSE [ses |-> Poner(v.ses, sid,
                            agregar_metadatos(i.ses, ClaveUltima(tipo), now)),
                  rt |-> Poner(c.rt, sid, Append(c.rt[sid], now)),
                  ok |-> TRUE, log |-> "tracked", n |-> 0]

\* apply_rate_limiting that always tells the caller to wait a full minute
apply_rate_limiting_espera_fija(S, R, sid, now) ==
  LET v == validate_session(S, R, sid, now) IN
  IF ~v.ok
    THEN [ses |-> v.ses, rt |-> v.rt, ok |-> FALSE,
          log |-> "invalid_session", n |-> 0]
    ELSE LET c == check_rate_limit(v.rt, sid, now) IN
      IF ~c.ok
        THEN [ses |-> v.ses, rt |-> c.rt, ok |-> FALSE,
              log |-> "rate_limit_exceeded", n |-> SegundosVentana]
        ELSE [ses |-> v.ses, rt |-> c.rt, ok |-> TRUE, log |-> "allowed",
              n |-> limite_por_minuto - Len(c.rt[sid])]

\* apply_rate_limiting that counts the rate window as it stands
apply_rate_limiting_sin_poda(S, R, sid, now) ==
  LET v == validate_session(S, R, sid, now) IN
  IF ~v.ok
    THEN [ses |-> v.ses, rt |-> v.rt, ok |-> FALSE,
          log |-> "invalid_session", n |-> 0]
    ELSE IF ~(Len(v.rt[sid]) < limite_por_minuto)
      THEN [ses |-> v.ses, rt |-> v.rt, ok |-> FALSE,
            log |-> "rate_limit_exceeded",
            n |-> SegundosVentana - (now % SegundosVentana)]
      ELSE [ses |-> v.ses, rt |-> v.rt, ok |-> TRUE, log |-> "allowed",
            n |-> limite_por_minuto - Len(v.rt[sid])]

\* apply_rate_limiting that records the probe in the rate window
apply_rate_limiting_anade(S, R, sid, now) ==
  LET v == validate_session(S, R, sid, now) IN
  IF ~v.ok
    THEN [ses |-> v.ses, rt |-> v.rt, ok |-> FALSE,
          log |-> "invalid_session", n |-> 0]
    ELSE LET c == check_rate_limit(v.rt, sid, now) IN
      IF ~c.ok
        THEN [ses |-> v.ses, rt |-> c.rt, ok |-> FALSE,
              log |-> "rate_limit_exceeded",
              n |-> SegundosVentana - (now % SegundosVentana)]
        ELSE [ses |-> v.ses, rt |-> Poner(c.rt, sid, Append(c.rt[sid], now)),
              ok |-> TRUE, log |-> "allowed",
              n |-> limite_por_minuto - Len(c.rt[sid])]

\* GestorSesiones.apply_rate_limiting; n is retry_after or remaining
apply_rate_limiting(S, R, sid, now) ==
  LET v == validate_session(S, R, sid, now) IN
  IF ~v.ok
    THEN [ses |-> v.ses, rt |-> v.rt, ok |-> FALSE,
          log |-> "invalid_session", n |-> 0]
    ELSE LET c == check_rate_limit(v.rt, sid, now) IN
      IF ~c.ok
        THEN [ses |-> v.ses, rt |-> c.rt, ok |-> FALSE,
              log |-> "rate_limit_exceeded",
              n |-> SegundosVentana - (now % SegundosVentana)]
        ELSE [ses |-> v.ses, rt |-> c.rt, ok |-> TRUE, log |-> "allowed",
              n |-> limite_por_minuto - Len(c.rt[sid])]

\* the 'retry_after' entry of the dict apply_rate_limiting returned (r is what
\* the call left in resultado): a number only in the rate_limit_exceeded
\* answer; None in the invalid_session answer, no such key in the allowed one
retry_after(r) ==
  IF r.log = "rate_limit_exceeded"
    THEN [numero |-> TRUE, valor |-> r.n]
    ELSE [numero |-> FALSE, valor |-> 0]

\* GestorSesiones.cleanup_expired_sessions; n is the count it returns
cleanup_expired_sessions(S, R, now) ==
  LET expiradas == {sid \in DOMAIN S : ~es_valida(S[sid], now).ok} IN
  [ses |-> [sid \in (DOMAIN S) \ expiradas |-> es_valida(S[sid], now).ses],
   rt |-> [sid \in (DOMAIN R) \ expiradas |-> R[sid]],
   ok |-> expiradas # {}, log |-> "cleaned", n |-> Cardinality(expiradas)]

\* extend_session that extends whatever session it finds in the registry
extend_session_sin_validar(S, R, sid, horas, now) ==
  IF sid \notin DOMAIN S
    THEN [ses |-> S, rt |-> R, ok |-> FALSE, log |-> "not_found", n |-> 0]
    ELSE [ses |-> Poner(S, sid, extender_sesion(S[sid], horas, now)),
          rt |-> R, ok |-> TRUE, log |-> "extended", n |-> 0]

\* GestorSesiones.extend_session
extend_session(S, R, sid, horas, now) ==
  LET v == validate_session(S, R, sid, now) IN
  IF ~v.ok
    THEN [v EXCEPT !.ok = FALSE]
    ELSE [ses |-> Poner(v.ses, sid, extender_sesion(v.ses[sid], horas, now)),
          rt |-> v.rt, ok |-> TRUE, log |-> "extended", n |-> 0]

\* the dictionary of get_session_stats with every session counted as active
estadisticas_activas_todas(S, R) ==
  [total_sessions |-> Cardinality(DOMAIN S),
   active_sessions |-> Cardinality(DOMAIN S),
   expired_sessions |->
     Cardinality({sid \in DOMAIN S : S[sid].estado = EXPIRADA}),
   rate_limited_sessions |->
     Cardinality({sid \in DOMAIN S :
                    S[sid].estado = LIMITADA_POR_VELOCIDAD}),
   rate_tracking_entries |-> Cardinality(DOMAIN R)]

\* the dictionary get_session_stats returns: the sessions are counted by the
\* status they hold, es_valida is not called
estadisticas(S, R) ==
  [total_sessions |-> Cardinality(DOMAIN S),
   active_sessions |->
     Cardinality({sid \in DOMAIN S : S[sid].estado = ACTIVA}),
   expired_sessions |->
     Cardinality({sid \in DOMAIN S : S[sid].estado = EXPIRADA}),
   rate_limited_sessions |->
     Cardinality({sid \in DOMAIN S :
                    S[sid].estado = LIMITADA_POR_VELOCIDAD}),
   rate_tracking_entries |-> Cardinality(DOMAIN R)]

\* GestorSesiones.get_session_stats; n is total_sessions
get_session_stats(S, R) ==
  [ses |-> S, rt |-> R, ok |-> TRUE, log |-> "stats",
   n |-> estadisticas(S, R).total_sessions]

\* ------------------------------------------------------------------- Init
SinResultado ==
  [op |-> "none", sid |-> 0, ok |-> FALSE, log |-> "none", n |-> 0]
SinLlamada ==
  [op |-> "none", sid |-> 0, tipo |-> "chat", horas |-> 0,
   usuario |-> "anonymous", visto |-> <<>>]

\* app.py: a thread that serves no request, and no response sent yet
SinPeticion == [pc |-> "idle", sid |-> "", ref |-> 0]
SinRespuesta == [ruta |-> "none", sid |-> "", estado |-> 0]

\* nothing accepted, nothing refused yet
SinTraza ==
  [aceptadas |-> [sid \in Ids |-> <<>>],
   rechazo |-> [sid |-> 0, en |-> 0, espera |-> 0]]

Init ==
  /\ sesiones = Vacio
  /\ seguimiento_velocidad = Vacio
  /\ siguiente_id = 1
  /\ ahora = 0
  /\ resultado = SinResultado
  /\ bloqueo = NoHilo
  /\ pc = [h \in Hilos |-> "idle"]
  /\ llamada = [h \in Hilos |-> SinLlamada]
  /\ ent = Sesion("anonymous", 0)
  /\ ent_ret = [op |-> "init", ok |-> TRUE, antes |-> ACTIVA]
  /\ traza = SinTraza
  /\ sessions = Vacio
  /\ registros = <<>>
  /\ peticiones = [h \in Hilos |-> SinPeticion]
  /\ respuesta = SinRespuesta

\* The effect e of operation op on session id sid becomes the state.
Aplicar(op, sid, e) ==
  /\ sesiones' = e.ses
  /\ seguimiento_velocidad' = e.rt
  /\ resultado' =
       [op |-> op, sid |-> sid, ok |-> e.ok, log |-> e.log, n |-> e.n]

\* The clock moves to a later instant.
Tick ==
  /\ \E t \in Instantes : t > ahora /\ ahora' = t
  /\ UNCHANGED <<gestor, hilos, entidad, traza, app>>

\* ------------------------------------------------------------------------
\* Spec: the public operations of GestorSesiones, one call a step.  A call's
\* body runs inside "with self.bloqueo", so the calls of concurrent callers
\* happen one after another; the lock itself is the subject of SpecLock.
\* ------------------------------------------------------------------------

\* Sessions are created during the first minute.
CreateSession(u) ==
  /\ siguiente_id <= MaxSesiones
  /\ ahora < SegundosVentana
  /\ Aplicar("create", siguiente_id,
             create_session(sesiones, seguimiento_velocidad, siguiente_id, u,
                            ahora))
  /\ siguiente_id' = siguiente_id + 1
  /\ UNCHANGED <<ahora, hilos, entidad, traza, app>>

ValidateSession(sid) ==
  /\ Aplicar("validate", sid,
             validate_session(sesiones, seguimiento_velocidad, sid, ahora))
  /\ UNCHANGED <<siguiente_id, ahora, hilos, entidad, traza, app>>

TrackInteraction(sid, tipo) ==
  /\ Aplicar("track", sid,
             track_interaction(sesiones, seguimiento_velocidad, sid, tipo,
                               ahora))
  /\ UNCHANGED <<siguiente_id, ahora, hilos, entidad, traza, app>>

ApplyRateLimiting(sid) ==
  /\ Aplicar("apply", sid,
             apply_rate_limiting(sesiones, seguimiento_velocidad, sid, ahora))
  /\ UNCHANGED <<siguiente_id, ahora, hilos, entidad, traza, app>>

CleanupExpiredSessions ==
  /\ Aplicar("cleanup", 0,
             cleanup_expired_sessions(sesiones, seguimiento_velocidad, ahora))
  /\ UNCHANGED <<siguiente_id, ahora, hilos, entidad, traza, app>>

\* expira_en stays within one default extension of its initial value.
DentroDeExtension(s, horas) ==
  LET d == s.expira_en + horas * 3600 - (s.creada_en + VidaSegundos)
  IN d <= HorasPorDefecto * 3600 /\ d >= 0 - HorasPorDefecto * 3600

ExtendSession(sid, horas) ==
  /\ sid \in DOMAIN sesiones => DentroDeExtension(sesiones[sid], horas)
  /\ Aplicar("extend", sid,
             extend_session(sesiones, seguimiento_velocidad, sid, horas,
                            ahora))
  /\ UNCHANGED <<siguiente_id, ahora, hilos, entidad, traza, app>>

GetSessionStats ==
  /\ Aplicar("stats", 0, get_session_stats(sesiones, seguimiento_velocidad))
  /\ UNCHANGED <<siguiente_id, ahora, hilos, entidad, traza, app>>

Next ==
  \/ Tick
  \/ \E u \in Usuarios : CreateSession(u)
  \/ \E sid \in Ids : ValidateSession(sid)
  \/ \E sid \in Ids, tipo \in Tipos : TrackInteraction(sid, tipo)
  \/ \E sid \in Ids : ApplyRateLimiting(sid)
  \/ CleanupExpiredSessions
  \/ \E sid \in Ids, horas \in Horas : ExtendSession(sid, horas)
  \/ GetSessionStats

Spec == Init /\ [][Next]_vars

\* ------------------------------------------------------------------------
\* SpecEntidad: the methods of one Sesion object, called directly.
\* ent_ret: the method called last, what it returned, and the status the
\* object had before the call.
\* ------------------------------------------------------------------------
HorasEntidad == {HorasPorDefecto, 0 - HorasPorDefecto}

EntEsValida ==
  /\ LET r == es_valida(ent, ahora) IN
       /\ ent' = r.ses
       /\ ent_ret' = [op |-> "es_valida", ok |-> r.ok, antes |-> ent.estado]
  /\ UNCHANGED <<gestor, ahora, hilos, traza, app>>

EntIncrementarInteraccion ==
  /\ LET r == incrementar_interaccion(ent, max_interacciones, ahora) IN
       /\ ent' = r.ses
       /\ ent_ret' = [op |-> "incrementar_interaccion", ok |-> r.ok,
                      antes |-> ent.estado]
  /\ UNCHANGED <<gestor, ahora, hilos, traza, app>>

EntExtenderSesion(horas) ==
  /\ DentroDeExtension(ent, horas)
  /\ ent' = extender_sesion(ent, horas, ahora)
  /\ ent_ret' = [op |-> "extender_sesion", ok |-> TRUE, antes |-> ent.estado]
  /\ UNCHANGED <<gestor, ahora, hilos, traza, app>>

EntAgregarMetadatos(tipo) ==
  /\ ent' = agregar_metadatos(ent, ClaveUltima(tipo), ahora)
  /\ ent_ret' = [op |-> "agregar_metadatos", ok |-> TRUE,
                 antes |-> ent.estado]
  /\ UNCHANGED <<gestor, ahora, hilos, traza, app>>

NextEntidad ==
  \/ Tick
  \/ EntEsValida
  \/ EntIncrementarInteraccion
  \/ \E horas \in HorasEntidad : EntExtenderSesion(horas)
  \/ \E tipo \in Tipos : EntAgregarMetadatos(tipo)

SpecEntidad == Init /\ [][NextEntidad]_vars

\* ------------------------------------------------------------------------
\* SpecExtension: sessions are created, validated, swept and extended, by any
\* number of hours a caller may pass, negative ones included.
\* ------------------------------------------------------------------------
NextExtension ==
  \/ Tick
  \/ \E u \in Usuarios : CreateSession(u)
  \/ \E sid \in Ids : ValidateSession(sid)
  \/ \E sid \in Ids, horas \in HorasEntidad : ExtendSession(sid, horas)
  \/ CleanupExpiredSessions
  \/ GetSessionStats

SpecExtension == Init /\ [][NextExtension]_vars

\* ------------------------------------------------------------------------
\* SpecVentana: interactions and probes around the boundaries of wall-clock
\* minutes.  traza records what the calls did: the instant of every accepted
\* interaction, and the probe that last answered rate_limit_exceeded (whom,
\* when, and the retry_after it reported).
\* ------------------------------------------------------------------------
InstantesVentana ==
  {0, SegundosVentana - 1, SegundosVentana, 2 * SegundosVentana - 1}

TickVentana ==
  /\ \E t \in InstantesVentana : t > ahora /\ ahora' = t
  /\ UNCHANGED <<gestor, hilos, entidad, traza, app>>

\* traza after the call op on sid with effect e
Registrar(op, sid, e) ==
  [aceptadas |->
     IF op = "track" /\ e.ok
       THEN [traza.aceptadas EXCEPT ![sid] = Append(@, ahora)]
       ELSE traza.aceptadas,
   rechazo |->
     IF op = "apply" /\ e.log = "rate_limit_exceeded"
       THEN [sid |-> sid, en |-> ahora, espera |-> e.n]
       ELSE traza.rechazo]

TrackVentana(sid, tipo) ==
  /\ LET e == track_interaction(sesiones, seguimiento_velocidad, sid, tipo,
                                ahora) IN
       /\ Aplicar("track", sid, e)
       /\ traza' = Registrar("track", sid, e)
  /\ UNCHANGED <<siguiente_id, ahora, hilos, entidad, app>>

ApplyVentana(sid) ==
  /\ LET e == apply_rate_limiting(sesiones, seguimiento_velocidad, sid,
                                  ahora) IN
       /\ Aplicar("apply", sid, e)
       /\ traza' = Registrar("apply", sid, e)
  /\ UNCHANGED <<siguiente_id, ahora, hilos, entidad, app>>

NextVentana ==
  \/ TickVentana
  \/ \E u \in Usuarios : CreateSession(u)
  \/ \E sid \in Ids, tipo \in Tipos : TrackVentana(sid, tipo)
  \/ \E sid \in Ids : ApplyVentana(sid)

SpecVentana == Init /\ [][NextVentana]_vars

\* ------------------------------------------------------------------------
\* SpecMiddleware: requests to a chat route that is decorated with
\* requiere_sesion_valida and registrar_interaccion.  A request of thread h
\* makes three calls of the manager, one a step (validate_session,
\* apply_rate_limiting, track_interaction), and then runs the handler; the
\* requests of other threads, the scheduler's sweep and the clock may take
\* steps in between.  For a step of a request, resultado holds what the
\* manager's call returned (ok), and what the decorator answers or does next:
\* log is the 'codigo' of the JSON answer (or the stage reached), n the HTTP
\* status (0 while the request goes on).
\* ------------------------------------------------------------------------
SESSION_INVALIDA == "INVALID_SESSION"
LIMITE_VELOCIDAD == "RATE_LIMIT_EXCEEDED"
LIMITE_INTERACCIONES == "INTERACTION_LIMIT_EXCEEDED"

\* a decorator's step: the manager's effect e, the answer or stage, the
\* status; the request's context is gone when the request is answered
Responder(h, op, e, codigo, estado_http, sigue) ==
  /\ sesiones' = e.ses
  /\ seguimiento_velocidad' = e.rt
  /\ resultado' = [op |-> op, sid |-> llamada[h].sid, ok |-> e.ok,
                   log |-> codigo, n |-> estado_http]
  /\ pc' = [pc EXCEPT ![h] = sigue]
  /\ llamada' = IF sigue = "idle" THEN [llamada EXCEPT ![h] = SinLlamada]
                ELSE llamada

\* requiere_sesion_valida, first call: gestor_sesiones.validate_session
ValidarPeticion(h, sid, tipo) ==
  /\ pc[h] = "idle"
  /\ LET e == validate_session(sesiones, seguimiento_velocidad, sid, ahora) IN
       /\ llamada' = [llamada EXCEPT ![h] =
            IF e.ok THEN [SinLlamada EXCEPT !.op = "peticion", !.sid = sid,
                                            !.tipo = tipo]
                    ELSE SinLlamada]
       /\ sesiones' = e.ses
       /\ seguimiento_velocidad' = e.rt
       /\ resultado' =
            [op |-> "requiere_sesion_valida", sid |-> sid, ok |-> e.ok,
             log |-> IF e.ok THEN "validada" ELSE SESSION_INVALIDA,
             n |-> IF e.ok THEN 0 ELSE 401]
       /\ pc' = [pc EXCEPT ![h] = IF e.ok THEN "validada" ELSE "idle"]
  /\ UNCHANGED <<siguiente_id, ahora, bloqueo, entidad, traza, app>>

\* requiere_sesion_valida, second call: gestor_sesiones.apply_rate_limiting
LimitarPeticion(h) ==
  /\ pc[h] = "validada"
  /\ LET e == apply_rate_limiting(sesiones, seguimiento_velocidad,
                                  llamada[h].sid, ahora) IN
       Responder(h, "requiere_sesion_valida", e,
                 IF e.ok THEN "permitida" ELSE LIMITE_VELOCIDAD,
                 IF e.ok THEN 0 ELSE 429,
                 IF e.ok THEN "permitida" ELSE "idle")
  /\ UNCHANGED <<siguiente_id, ahora, bloqueo, entidad, traza, app>>

\* registrar_interaccion that goes on to the handler whatever
\* track_interaction returned
RegistrarInteraccion_sin_control(h) ==
  /\ pc[h] = "permitida"
  /\ LET e == track_interaction(sesiones, seguimiento_velocidad,
                                llamada[h].sid, llamada[h].tipo, ahora) IN
       Responder(h, "registrar_interaccion", e, "registrada", 0, "registrada")
  /\ UNCHANGED <<siguiente_id, ahora, bloqueo, entidad, traza, app>>

\* registrar_interaccion: gestor_sesiones.track_interaction
RegistrarInteraccion(h) ==
  /\ pc[h] = "permitida"
  /\ LET e == track_interaction(sesiones, seguimiento_velocidad,
                                llamada[h].sid, llamada[h].tipo, ahora) IN
       Responder(h, "registrar_interaccion", e,
                 IF e.ok THEN "registrada" ELSE LIMITE_INTERACCIONES,
                 IF e.ok THEN 0 ELSE 429,
                 IF e.ok THEN "registrada" ELSE "idle")
  /\ UNCHANGED <<siguiente_id, ahora, bloqueo, entidad, traza, app>>

\* the decorated function: the response is generated
Handler(h) ==
  /\ pc[h] = "registrada"
  /\ resultado' = [op |-> "handler", sid |-> llamada[h].sid, ok |-> TRUE,
                   log |-> "OK", n |-> 200]
  /\ pc' = [pc EXCEPT ![h] = "idle"]
  /\ llamada' = [llamada EXCEPT ![h] = SinLlamada]
  /\ UNCHANGED <<sesiones, seguimiento_velocidad, siguiente_id, ahora,
                 bloqueo, entidad, traza, app>>

\* limpiar_sesiones_expiradas, called by a scheduler
LimpiarSesionesExpiradas == CleanupExpiredSessions

\* the instants of the requests: the start of a minute and the start of the
\* next one
InstantesPeticion == {0, SegundosVentana}

\* The clock moves to a later instant.
TickPeticion ==
  /\ \E t \in InstantesPeticion : t > ahora /\ ahora' = t
  /\ UNCHANGED <<gestor, hilos, entidad, traza, app>>

NextMiddleware ==
  \/ TickPeticion
  \/ \E u \in Usuarios : CreateSession(u)
  \/ \E h \in Hilos, sid \in Ids, tipo \in Tipos : ValidarPeticion(h, sid, tipo)
  \/ \E h \in Hilos : LimitarPeticion(h)
  \/ \E h \in Hilos : RegistrarInteraccion(h)
  \/ \E h \in Hilos : Handler(h)
  \/ LimpiarSesionesExpiradas

SpecMiddleware == Init /\ [][NextMiddleware]_vars

\* ------------------------------------------------------------------------
\* SpecApp: app.py, the variant with the module-level dictionary sessions and
\* the 2-second debounce.  Flask serves each request in a thread of its own
\* and nothing guards sessions, so a request is a sequence of steps, one for
\* each read or write of sessions or of a session record, and the steps of
\* different requests interleave.  A session record is the dict that
\* get_or_create_session builds; a request holds a reference to it
\* (session_data), which stays good when sessions[session_id] is deleted or
\* assigned again.  Of a record, 'turns' (the instants of the turns; the
\* questions and answers are left out) and 'last_interaction' are kept.
\* ------------------------------------------------------------------------
\* MAX_SESSION_TURNS (10 in the source), kept small
MAX_SESSION_TURNS == 2
\* number of session records made in a run
MaxRegistros == 3
\* the 2 of apply_rate_limit's "< 2", in seconds
SegundosDebounce == 2
\* the seconds of a day: timedelta.seconds is what is left of a duration
\* after its whole days are taken out
SegundosDia == 86400
\* the sessionId values of the requests
Claves == {"s1"}
\* the instants of the requests: a start, one and two seconds later, and one
\* day and one second later
InstantesApp == {0, 1, SegundosDebounce, SegundosDia + 1}

\* the dict get_or_create_session stores for a new id
NuevoRegistro(now) == [turns |-> <<>>, last_interaction |-> now]

\* deque(maxlen=MAX_SESSION_TURNS).append
deque_append(q, x) ==
  IF Len(q) < MAX_SESSION_TURNS THEN Append(q, x) ELSE Append(Tail(q), x)

\* push_turn
push_turn(session_data, now) ==
  [turns |-> deque_append(session_data.turns, now),
   last_interaction |-> now]

\* (now - last_interaction).seconds
seconds(now, last_interaction) == (now - last_interaction) % SegundosDia

\* apply_rate_limit: TRUE when the request is too fast
apply_rate_limit(session_data, now) ==
  seconds(now, session_data.last_interaction) < SegundosDebounce

\* what thread h does next, and the response it sends when its request ends
Sigue(h, p) == peticiones' = [peticiones EXCEPT ![h].pc = p]
Termina(h, ruta, estado) ==
  /\ peticiones' = [peticiones EXCEPT ![h] = SinPeticion]
  /\ respuesta' = [ruta |-> ruta, sid |-> peticiones[h].sid,
                   estado |-> estado]

\* The clock moves to a later instant.
TickApp ==
  /\ \E t \in InstantesApp : t > ahora /\ ahora' = t
  /\ UNCHANGED <<gestor, hilos, entidad, traza, app>>

\* ask, get_or_create_session: "if session_id not in sessions"
AskBuscar(h, sid) ==
  /\ peticiones[h].pc = "idle"
  /\ peticiones' = [peticiones EXCEPT ![h] =
       [pc |-> IF sid \notin DOMAIN sessions THEN "crear" ELSE "obtener",
        sid |-> sid, ref |-> 0]]
  /\ UNCHANGED <<gestor, ahora, hilos, entidad, traza, sessions, registros,
                 respuesta>>

\* get_or_create_session: "sessions[session_id] = {...}"
AskCrear(h) ==
  /\ peticiones[h].pc = "crear"
  /\ Len(registros) < MaxRegistros
  /\ registros' = Append(registros, NuevoRegistro(ahora))
  /\ sessions' = Poner(sessions, peticiones[h].sid, Len(registros) + 1)
  /\ Sigue(h, "obtener")
  /\ UNCHANGED <<gestor, ahora, hilos, entidad, traza, respuesta>>

\* get_or_create_session: "return sessions[session_id]"; a KeyError ends in
\* ask's except branch
AskObtener(h) ==
  /\ peticiones[h].pc = "obtener"
  /\ IF peticiones[h].sid \in DOMAIN sessions
       THEN /\ peticiones' = [peticiones EXCEPT
                 ![h].pc = "limitar", ![h].ref = sessions[peticiones[h].sid]]
            /\ UNCHANGED respuesta
       ELSE Termina(h, "ask", 500)
  /\ UNCHANGED <<gestor, ahora, hilos, entidad, traza, sessions, registros>>

\* ask: "if apply_rate_limit(session_data)" answers 429
AskLimitar(h) ==
  /\ peticiones[h].pc = "limitar"
  /\ IF apply_rate_limit(registros[peticiones[h].ref], ahora)
       THEN Termina(h, "ask", 429)
       ELSE Sigue(h, "generar") /\ UNCHANGED respuesta
  /\ UNCHANGED <<gestor, ahora, hilos, entidad, traza, sessions, registros>>

\* ask: the answer has come, push_turn(session_data, ...) and 200
AskResponder(h) ==
  /\ peticiones[h].pc = "generar"
  /\ registros' = [registros EXCEPT
       ![peticiones[h].ref] = push_turn(@, ahora)]
  /\ Termina(h, "ask", 200)
  /\ UNCHANGED <<gestor, ahora, hilos, entidad, traza, sessions>>

\* ask: the call of the model raises, the except branch answers 500
AskFalla(h) ==
  /\ peticiones[h].pc = "generar"
  /\ Termina(h, "ask", 500)
  /\ UNCHANGED <<gestor, ahora, hilos, entidad, traza, sessions, registros>>

\* reset_session: "if session_id in sessions"
ResetBuscar(h, sid) ==
  /\ peticiones[h].pc = "idle"
  /\ IF sid \in DOMAIN sessions
       THEN /\ peticiones' = [peticiones EXCEPT ![h] =
                 [pc |-> "borrar", sid |-> sid, ref |-> 0]]
            /\ UNCHANGED respuesta
       ELSE /\ peticiones' = peticiones
            /\ respuesta' = [ruta |-> "reset", sid |-> sid, estado |-> 200]
  /\ UNCHANGED <<gestor, ahora, hilos, entidad, traza, sessions, registros>>

\* reset_session: "del sessions[session_id]"; a KeyError ends in the except
\* branch
ResetBorrar(h) ==
  /\ peticiones[h].pc = "borrar"
  /\ IF peticiones[h].sid \in DOMAIN sessions
       THEN /\ sessions' = Quitar(sessions, peticiones[h].sid)
            /\ Termina(h, "reset", 200)
       ELSE /\ UNCHANGED sessions
            /\ Termina(h, "reset", 500)
  /\ UNCHANGED <<gestor, ahora, hilos, entidad, traza, registros>>

NextApp ==
  \/ TickApp
  \/ \E h \in Hilos, sid \in Claves : AskBuscar(h, sid)
  \/ \E h \in Hilos : AskCrear(h)
  \/ \E h \in Hilos : AskObtener(h)
  \/ \E h \in Hilos : AskLimitar(h)
  \/ \E h \in Hilos : AskResponder(h)
  \/ \E h \in Hilos : AskFalla(h)
  \/ \E h \in Hilos, sid \in Claves : ResetBuscar(h, sid)
  \/ \E h \in Hilos : ResetBorrar(h)

SpecApp == Init /\ [][NextApp]_vars

\* ------------------------------------------------------------------------
\* SpecLock: the callers' threads and self.bloqueo.  A call waits for the
\* lock at "with self.bloqueo" (esperando), enters the body (dentro), reads
\* the dictionaries (leido), writes them and leaves the with block.  The
\* bodies of track_interaction, apply_rate_limiting and extend_session start
\* by calling validate_session, whose own "with self.bloqueo" waits for the
\* lock again (anidada).
\* ------------------------------------------------------------------------
Anidadas == {"track", "apply", "extend"}
EnSeccion == {"dentro", "anidada", "dentro_anidada", "leido"}

Llamadas ==
  {[SinLlamada EXCEPT !.op = "create", !.usuario = u] : u \in Usuarios}
  \cup {[SinLlamada EXCEPT !.op = "validate", !.sid = sid] : sid \in Ids}
  \cup {[SinLlamada EXCEPT !.op = "track", !.sid = sid, !.tipo = tipo] :
          sid \in Ids, tipo \in Tipos}
  \cup {[SinLlamada EXCEPT !.op = "apply", !.sid = sid] : sid \in Ids}
  \cup {[SinLlamada EXCEPT !.op = "cleanup"]}
  \cup {[SinLlamada EXCEPT !.op = "extend", !.sid = sid, !.horas = horas] :
          sid \in Ids, horas \in Horas}
  \cup {[SinLlamada EXCEPT !.op = "stats"]}

\* threading.Lock.acquire with every caller allowed in
PuedeAdquirir_sin_exclusion(b, h) == TRUE

\* threading.Lock.acquire: the lock is taken only when nobody holds it, the
\* caller itself included (threading.Lock is not reentrant)
PuedeAdquirir(b, h) == b = NoHilo

\* the effect of the body of call c on what it read (v)
Efecto(c, v) ==
  CASE c.op = "create" ->
         create_session(v.ses, v.rt, v.id, c.usuario, v.now)
    [] c.op = "validate" -> validate_session(v.ses, v.rt, c.sid, v.now)
    [] c.op = "track" ->
         track_interaction(v.ses, v.rt, c.sid, c.tipo, v.now)
    [] c.op = "apply" -> apply_rate_limiting(v.ses, v.rt, c.sid, v.now)
    [] c.op = "cleanup" -> cleanup_expired_sessions(v.ses, v.rt, v.now)
    [] c.op = "extend" ->
         extend_session(v.ses, v.rt, c.sid, c.horas, v.now)
    [] OTHER -> get_session_stats(v.ses, v.rt)

\* a thread starts a call and reaches "with self.bloqueo"
Llamar(h, c) ==
  /\ pc[h] = "idle"
  /\ c.op = "create" =>
       /\ ahora < SegundosVentana
       /\ siguiente_id
            + Cardinality({g \in Hilos : llamada[g].op = "create"})
            <= MaxSesiones
  /\ pc' = [pc EXCEPT ![h] = "esperando"]
  /\ llamada' = [llamada EXCEPT ![h] = c]
  /\ UNCHANGED <<gestor, ahora, bloqueo, entidad, traza, app>>

\* "with self.bloqueo": __enter__ acquires the lock
Adquirir(h) ==
  /\ pc[h] \in {"esperando", "anidada"}
  /\ PuedeAdquirir(bloqueo, h)
  /\ bloqueo' = h
  /\ pc' = [pc EXCEPT ![h] = IF pc[h] = "esperando" THEN "dentro"
                              ELSE "dentro_anidada"]
  /\ UNCHANGED <<gestor, ahora, llamada, entidad, traza, app>>

\* the body: a call of validate_session from inside the with block reaches
\* validate_session's own "with self.bloqueo"; any other body reads the
\* dictionaries, the id generator and the clock
Cuerpo(h) ==
  /\ pc[h] \in {"dentro", "dentro_anidada"}
  /\ IF pc[h] = "dentro" /\ llamada[h].op \in Anidadas
       THEN /\ pc' = [pc EXCEPT ![h] = "anidada"]
            /\ UNCHANGED llamada
       ELSE /\ pc' = [pc EXCEPT ![h] = "leido"]
            /\ llamada' = [llamada EXCEPT ![h].visto =
                 [ses |-> sesiones, rt |-> seguimiento_velocidad,
                  id |-> siguiente_id, now |-> ahora]]
  /\ UNCHANGED <<gestor, ahora, bloqueo, entidad, traza, app>>

\* the body writes the dictionaries and returns; __exit__ releases the lock
Terminar(h) ==
  /\ pc[h] = "leido"
  /\ LET c == llamada[h] IN
       /\ Aplicar(c.op, IF c.op = "create" THEN c.visto.id ELSE c.sid,
                  Efecto(c, c.visto))
       /\ siguiente_id' = IF c.op = "create" THEN c.visto.id + 1
                          ELSE siguiente_id
  /\ bloqueo' = NoHilo
  /\ pc' = [pc EXCEPT ![h] = "idle"]
  /\ llamada' = [llamada EXCEPT ![h] = SinLlamada]
  /\ UNCHANGED <<ahora, entidad, traza, app>>

\* the instants of the threads' calls: a start, and the expiry of a session
\* created then with the second that follows it (no call of the threads ever
\* writes a rate window, so the minute's boundary plays no part here)
InstantesLock == {0, VidaSegundos, VidaSegundos + 1}

\* The clock moves to a later instant.
TickLock ==
  /\ \E t \in InstantesLock : t > ahora /\ ahora' = t
  /\ UNCHANGED <<gestor, hilos, entidad, traza, app>>

NextLock ==
  \/ TickLock
  \/ \E h \in Hilos, c \in Llamadas : Llamar(h, c)
  \/ \E h \in Hilos : Adquirir(h)
  \/ \E h \in Hilos : Cuerpo(h)
  \/ \E h \in Hilos : Terminar(h)

SpecLock == Init /\ [][NextLock]_vars

\* ------------------------------------------------------------------------
\* Properties of the operations (Spec)
\* ------------------------------------------------------------------------
\* the timestamps of sid's rate window that are at most 60 seconds old
EnMinuto(sid) ==
  SelectSeq(seguimiento_velocidad[sid],
            LAMBDA req : req >= ahora - SegundosVentana)
\* every timestamp of sid's rate window was written at this very instant
EnRafaga(sid) ==
  \A i \in 1..Len(seguimiento_velocidad[sid]) :
    seguimiento_velocidad[sid][i] = ahora
\* sid is registered, Active and not past its expiry
Vigente(sid) ==
  /\ sid \in DOMAIN sesiones
  /\ sesiones[sid].estado = ACTIVA
  /\ ahora <= sesiones[sid].expira_en

\* a step is the call named: what the step left in resultado is looked at
\* first, then the whole operation
PasoTrack(sid, tipo) ==
  /\ resultado'.op = "track" /\ resultado'.sid = sid
  /\ TrackInteraction(sid, tipo)
PasoValidate(sid) ==
  /\ resultado'.op = "validate" /\ resultado'.sid = sid
  /\ ValidateSession(sid)
PasoApply(sid) ==
  /\ resultado'.op = "apply" /\ resultado'.sid = sid
  /\ ApplyRateLimiting(sid)
PasoExtend(sid, horas) ==
  /\ resultado'.op = "extend" /\ resultado'.sid = sid
  /\ ExtendSession(sid, horas)
PasoCleanup ==
  /\ resultado'.op = "cleanup"
  /\ CleanupExpiredSessions
PasoStats ==
  /\ resultado'.op = "stats"
  /\ GetSessionStats

\* C1: for every session in the registry, after any sequence of calls of
\* concurrent callers, interaction_count is at most max_interactions.
C1_ContadorAcotado ==
  \A sid \in DOMAIN sesiones :
    sesiones[sid].contador_interacciones <= max_interacciones

\* a track_interaction was refused at the cap: the counter stands at the cap
C1_Witness ==
  \E sid \in DOMAIN sesiones :
    /\ sesiones[sid].contador_interacciones = max_interacciones
    /\ resultado.op = "track" /\ resultado.sid = sid
    /\ resultado.log = "interaction_limit_exceeded"

\* C2: the registry and the rate-window index hold the same session ids in
\* every reachable state.
C2_Emparejados == DOMAIN sesiones = DOMAIN seguimiento_velocidad

\* validate_session has just evicted a session it found, with its rate window
C2_Witness ==
  /\ resultado.op = "validate" /\ ~resultado.ok
  /\ resultado.log # "not_found"
  /\ resultado.sid \notin DOMAIN sesiones
  /\ resultado.sid \notin DOMAIN seguimiento_velocidad

\* C3: validate_session called after expira_en does not return the session,
\* and the id is then in neither the registry nor the rate-window index.
C3_ExpiradaNoValida ==
  [][\A sid \in Ids :
       (/\ PasoValidate(sid)
        /\ sid \in DOMAIN sesiones
        /\ ahora > sesiones[sid].expira_en)
       => (/\ ~resultado'.ok
           /\ sid \notin DOMAIN sesiones'
           /\ sid \notin DOMAIN seguimiento_velocidad')]_vars

\* validate_session has just refused and removed a session it found expired
C3_Witness ==
  /\ resultado.op = "validate" /\ ~resultado.ok
  /\ resultado.log = "invalid_" \o EXPIRADA
  /\ resultado.sid \notin DOMAIN sesiones
  /\ resultado.sid \notin DOMAIN seguimiento_velocidad

\* C4: with limite_por_minuto = N, track_interaction calls made at one
\* instant on a live session below the cap are accepted while the rate window
\* holds fewer than N timestamps and the next one is refused for the rate
\* limit; and a track_interaction on the session that was last refused for the
\* rate limit is accepted once fewer than N of its timestamps are at most 60
\* seconds old (before expiry, below the cap).
C4_LimiteRecuperable ==
  [][\A sid \in Ids, tipo \in Tipos :
       /\ (/\ PasoTrack(sid, tipo)
           /\ Vigente(sid)
           /\ EnRafaga(sid)
           /\ sesiones[sid].contador_interacciones < max_interacciones)
          => IF Len(seguimiento_velocidad[sid]) < limite_por_minuto
               THEN resultado'.ok
               ELSE ~resultado'.ok /\ resultado'.log = "rate_limit_exceeded"
       /\ (/\ PasoTrack(sid, tipo)
           /\ resultado.op = "track" /\ resultado.sid = sid
           /\ resultado.log = "rate_limit_exceeded"
           /\ sid \in DOMAIN sesiones
           /\ ahora <= sesiones[sid].expira_en
           /\ sesiones[sid].contador_interacciones < max_interacciones
           /\ Len(EnMinuto(sid)) < limite_por_minuto)
          => resultado'.ok]_vars

C7_EsValidaIdempotente ==
  [][(EntEsValida /\ ahora > ent.expira_en)
       => /\ ~ent_ret'.ok
          /\ ent' = [ent EXCEPT !.estado = EXPIRADA]
          /\ (ent.estado = EXPIRADA => ent' = ent)]_vars

\* es_valida has just been called again on an object it had already turned
\* Expired
C7_Witness ==
  /\ ent_ret.op = "es_valida" /\ ~ent_ret.ok
  /\ ent_ret.antes = EXPIRADA
  /\ ent.estado = EXPIRADA
  /\ ahora > ent.expira_en

\* ------------------------------------------------------------------------
\* Properties of the lock (SpecLock)
\* ------------------------------------------------------------------------
\* C8 as claimed: no call ever waits for the lock while its own caller holds
\* it (such a wait never ends: nobody else can release the lock).
C8_SinAutoBloqueo ==
  \A h \in Hilos : ~(pc[h] = "anidada" /\ bloqueo = h)

\* C9: at most one call is inside "with self.bloqueo" at a time and it holds
\* the lock; and what a call has read is still what the dictionaries hold
\* when it writes, so every call takes effect as a whole, in the order in
\* which the calls leave the with block.
C9_ExclusionMutua ==
  /\ Cardinality({h \in Hilos : pc[h] \in EnSeccion}) <= 1
  /\ \A h \in Hilos : pc[h] \in EnSeccion => bloqueo = h
  /\ \A h \in Hilos :
       pc[h] = "leido" =>
         /\ llamada[h].visto.ses = sesiones
         /\ llamada[h].visto.rt = seguimiento_velocidad
         /\ llamada[h].visto.id = siguiente_id

\* one caller is in the middle of a body on a session another call created,
\* while another caller waits for the lock
C9_Witness ==
  \E h, g \in Hilos :
    /\ pc[h] = "leido" /\ pc[g] = "esperando"
    /\ llamada[h].op = "validate" /\ llamada[g].op = "cleanup"
    /\ llamada[h].sid \in DOMAIN sesiones

\* ------------------------------------------------------------------------
\* Properties of the operations (Spec), continued
\* ------------------------------------------------------------------------
\* C10 as claimed: a session whose counter equals max_interacciones is not
\* Active.
C10_EnTopeNoActiva ==
  \A sid \in DOMAIN sesiones :
    sesiones[sid].contador_interacciones = max_interacciones
      => sesiones[sid].estado # ACTIVA

\* C10 amended: a counter that equals max_interacciones is never changed
\* again, and the session leaves Active at the first track_interaction that
\* reaches incrementar_interaccion with the counter at the cap: that call is
\* refused and sets the status to RateLimited (until then the session may
\* still be Active).
C10_EnTopeSinIncremento ==
  [][\A sid \in Ids, tipo \in Tipos :
       /\ (/\ sid \in DOMAIN sesiones
           /\ sid \in DOMAIN sesiones'
           /\ sesiones[sid].contador_interacciones = max_interacciones)
          => sesiones'[sid].contador_interacciones = max_interacciones
       /\ (/\ PasoTrack(sid, tipo)
           /\ Vigente(sid)
           /\ Len(EnMinuto(sid)) < limite_por_minuto
           /\ sesiones[sid].contador_interacciones = max_interacciones)
          => /\ ~resultado'.ok
             /\ sesiones'[sid].estado = LIMITADA_POR_VELOCIDAD]_vars

\* an Active session sits at the cap after its last accepted interaction
C10_Witness ==
  \E sid \in DOMAIN sesiones :
    /\ sesiones[sid].contador_interacciones = max_interacciones
    /\ sesiones[sid].estado = ACTIVA
    /\ resultado.op = "track" /\ resultado.sid = sid /\ resultado.ok

\* C11: whenever track_interaction returns accepted, extend_session returns
\* true or validate_session returns the session, the session was in the
\* registry with status Active and now <= expira_en when the call was made.
C11_SoloVigentes ==
  [][\A sid \in Ids :
       /\ ((\E tipo \in Tipos : PasoTrack(sid, tipo)) /\ resultado'.ok)
            => Vigente(sid)
       /\ ((\E horas \in Horas : PasoExtend(sid, horas)) /\ resultado'.ok)
            => Vigente(sid)
       /\ (PasoValidate(sid) /\ resultado'.ok) => Vigente(sid)]_vars

\* an interaction has just been accepted after the first minute on a session
\* that had accepted one before
C11_Witness ==
  \E sid \in DOMAIN sesiones :
    /\ resultado.op = "track" /\ resultado.sid = sid /\ resultado.ok
    /\ sesiones[sid].contador_interacciones >= 2
    /\ ahora >= SegundosVentana

\* C12 as claimed: a call of apply_rate_limiting leaves the registry, every
\* session's fields and every rate window exactly as they were.
C12_SondaSinEfectos ==
  [][\A sid \in Ids :
       PasoApply(sid)
         => /\ sesiones' = sesiones
            /\ seguimiento_velocidad' = seguimiento_velocidad]_vars

\* C12 amended: apply_rate_limiting never appends to a rate window and never
\* changes a field of a session; on an id that is not registered it changes
\* nothing; a registered session that is expired or not Active is removed
\* with its rate window; the rate window of a valid session keeps, in order,
\* exactly its timestamps newer than now - 60 s; no other session or rate
\* window is touched.
C12_SondaSinAnadir ==
  [][\A sid \in Ids :
       PasoApply(sid)
         => /\ \A x \in (DOMAIN sesiones) \ {sid} :
                 /\ x \in DOMAIN sesiones' /\ sesiones'[x] = sesiones[x]
                 /\ x \in DOMAIN seguimiento_velocidad'
                 /\ seguimiento_velocidad'[x] = seguimiento_velocidad[x]
            /\ DOMAIN sesiones' \subseteq DOMAIN sesiones
            /\ DOMAIN seguimiento_velocidad' = DOMAIN sesiones'
            /\ sid \in DOMAIN sesiones =>
                 IF Vigente(sid)
                   THEN /\ sid \in DOMAIN sesiones'
                        /\ sesiones'[sid] = sesiones[sid]
                        /\ seguimiento_velocidad'[sid] =
                             SelectSeq(seguimiento_velocidad[sid],
                                       LAMBDA req : req > ahora - SegundosVentana)
                   ELSE sid \notin DOMAIN sesiones']_vars

\* a probe after the first minute has just answered with a full allowance on
\* a session that has accepted interactions: its rate window is empty again
C12_Witness ==
  \E sid \in DOMAIN sesiones :
    /\ resultado.op = "apply" /\ resultado.sid = sid /\ resultado.ok
    /\ resultado.n = limite_por_minuto
    /\ sesiones[sid].contador_interacciones >= 1
    /\ seguimiento_velocidad[sid] = <<>>

\* C13: when track_interaction finds the rate limit exceeded, the session was
\* valid, the call is refused, the session's status becomes RateLimited and
\* nothing else of the session changes (counter, ultima_actividad and metadata
\* stay), and no timestamp is appended to its rate window.
C13_RechazoPorVelocidad ==
  [][\A sid \in Ids, tipo \in Tipos :
       (PasoTrack(sid, tipo) /\ resultado'.log = "rate_limit_exceeded")
         => /\ Vigente(sid)
            /\ ~resultado'.ok
            /\ sid \in DOMAIN sesiones'
            /\ sesiones'[sid] =
                 [sesiones[sid] EXCEPT !.estado = LIMITADA_POR_VELOCIDAD]
            /\ seguimiento_velocidad'[sid] =
                 SelectSeq(seguimiento_velocidad[sid],
                           LAMBDA req : req > ahora - SegundosVentana)
            /\ Len(seguimiento_velocidad'[sid]) >= limite_por_minuto]_vars

\* an interaction has just been refused for the rate limit below the cap
C13_Witness ==
  \E sid \in DOMAIN sesiones :
    /\ resultado.op = "track" /\ resultado.sid = sid /\ ~resultado.ok
    /\ resultado.log = "rate_limit_exceeded"
    /\ sesiones[sid].estado = LIMITADA_POR_VELOCIDAD
    /\ sesiones[sid].contador_interacciones = limite_por_minuto
    /\ Len(seguimiento_velocidad[sid]) = limite_por_minuto

\* what an accepted track_interaction leaves of session s
Aceptada(s, tipo) ==
  [s EXCEPT !.contador_interacciones = @ + 1,
            !.ultima_actividad = ahora,
            !.metadatos = Poner(@, ClaveUltima(tipo), ahora)]

\* nothing but sid's session and rate window changes in the step
SoloCambia(sid) ==
  /\ DOMAIN sesiones' = DOMAIN sesiones
  /\ DOMAIN seguimiento_velocidad' = DOMAIN seguimiento_velocidad
  /\ \A x \in (DOMAIN sesiones) \ {sid} :
       /\ sesiones'[x] = sesiones[x]
       /\ seguimiento_velocidad'[x] = seguimiento_velocidad[x]

\* C14 as claimed: an accepted track_interaction adds 1 to the counter, sets
\* ultima_actividad to now, sets metadata key last_<interaction_type>, leaves
\* the status Active, appends now at the end of the session's rate window and
\* changes nothing else, in that window or anywhere.
C14_SoloAnade ==
  [][\A sid \in Ids, tipo \in Tipos :
       (PasoTrack(sid, tipo) /\ resultado'.ok)
         => /\ sesiones'[sid] = Aceptada(sesiones[sid], tipo)
            /\ sesiones'[sid].estado = ACTIVA
            /\ seguimiento_velocidad'[sid] =
                 Append(seguimiento_velocidad[sid], ahora)
            /\ SoloCambia(sid)]_vars

\* C14 amended: as claimed, except that the rate window afterwards is its
\* timestamps newer than now - 60 s, in order, followed by now.
C14_PodaYAnade ==
  [][\A sid \in Ids, tipo \in Tipos :
       (PasoTrack(sid, tipo) /\ resultado'.ok)
         => /\ sesiones'[sid] = Aceptada(sesiones[sid], tipo)
            /\ sesiones'[sid].estado = ACTIVA
            /\ seguimiento_velocidad'[sid] =
                 Append(SelectSeq(seguimiento_velocidad[sid],
                                  LAMBDA req : req > ahora - SegundosVentana),
                        ahora)
            /\ SoloCambia(sid)]_vars

\* an interaction has just been accepted after an earlier one left the window
C14_Witness ==
  \E sid \in DOMAIN sesiones :
    /\ resultado.op = "track" /\ resultado.sid = sid /\ resultado.ok
    /\ sesiones[sid].contador_interacciones = 2
    /\ sesiones[sid].ultima_actividad = ahora
    /\ sesiones[sid].metadatos = Poner(Vacio, ClaveUltima("chat"), ahora)
    /\ seguimiento_velocidad[sid] = <<ahora>>

\* ------------------------------------------------------------------------
\* Properties of the Sesion object (SpecEntidad), continued
\* ------------------------------------------------------------------------
\* C15 as claimed: the status of a Sesion changes only away from Active; once
\* it is Expired, RateLimited or Blocked no method changes it again.
C15_EstadosTerminales ==
  [][ent.estado # ACTIVA => ent'.estado = ent.estado]_vars

\* C16: extender_sesion adds the duration to expira_en, sets ultima_actividad
\* to now and changes nothing else, the status in particular; es_valida on an
\* object whose status is Expired or RateLimited answers false and leaves it
\* non-Active, however often it was extended.
C16_ExtenderNoReactiva ==
  [][/\ \A horas \in HorasEntidad :
          EntExtenderSesion(horas)
            => ent' = [ent EXCEPT !.expira_en = @ + horas * 3600,
                                  !.ultima_actividad = ahora]
     /\ (EntEsValida /\ ent.estado \in {EXPIRADA, LIMITADA_POR_VELOCIDAD})
          => ~ent_ret'.ok /\ ent'.estado # ACTIVA]_vars

\* es_valida has just answered false on an Expired object whose expira_en an
\* extension has moved past now
C16_Witness ==
  /\ ent_ret.op = "es_valida" /\ ~ent_ret.ok
  /\ ent.estado = EXPIRADA
  /\ ent.expira_en > ent.creada_en + VidaSegundos
  /\ ahora <= ent.expira_en

\* ------------------------------------------------------------------------
\* Properties of extend_session (Spec, SpecExtension)
\* ------------------------------------------------------------------------
\* C17: extend_session returns true iff the id is registered and the session
\* is Active and not past expira_en at the call; then that session's
\* expira_en has grown by exactly the duration; otherwise no session's
\* expira_en has changed.  No other session's expira_en changes either way.
C17_ExtiendeSiValida ==
  [][\A sid \in Ids, horas \in Horas :
       PasoExtend(sid, horas)
         => /\ resultado'.ok <=> Vigente(sid)
            /\ Vigente(sid) =>
                 /\ sid \in DOMAIN sesiones'
                 /\ sesiones'[sid].expira_en =
                      sesiones[sid].expira_en + horas * 3600
            /\ \A x \in (DOMAIN sesiones) \cap (DOMAIN sesiones') :
                 (x # sid \/ ~Vigente(sid))
                   => sesiones'[x].expira_en = sesiones[x].expira_en]_vars

\* an extension has just been granted
C17_Witness ==
  \E sid \in DOMAIN sesiones :
    /\ resultado.op = "extend" /\ resultado.sid = sid /\ resultado.ok
    /\ sesiones[sid].expira_en =
         sesiones[sid].creada_en + VidaSegundos + HorasPorDefecto * 3600
    /\ sesiones[sid].ultima_actividad = ahora

\* C18 as claimed: extend_session with a negative duration does not return
\* success, and no operation moves a session's expira_en earlier.
C18_DuracionNegativa ==
  [][\A sid \in Ids :
       /\ \A horas \in HorasEntidad :
            (horas < 0 /\ PasoExtend(sid, horas)) => ~resultado'.ok
       /\ (sid \in DOMAIN sesiones /\ sid \in DOMAIN sesiones')
            => sesiones'[sid].expira_en >= sesiones[sid].expira_en]_vars

C20_DesalojaInvalidas ==
  [][\A sid \in Ids :
       /\ (PasoValidate(sid) /\ sid \in DOMAIN sesiones)
            => IF Vigente(sid)
                 THEN /\ resultado'.ok
                      /\ sid \in DOMAIN sesiones'
                      /\ sesiones'[sid] = sesiones[sid]
                      /\ sid \in DOMAIN seguimiento_velocidad'
                 ELSE /\ ~resultado'.ok
                      /\ sid \notin DOMAIN sesiones'
                      /\ sid \notin DOMAIN seguimiento_velocidad'
       /\ (sid < siguiente_id /\ sid \notin DOMAIN sesiones)
            => /\ sid \notin DOMAIN sesiones'
               /\ sid \notin DOMAIN seguimiento_velocidad'
               /\ (\/ PasoValidate(sid)
                   \/ \E tipo \in Tipos : PasoTrack(sid, tipo)
                   \/ \E horas \in Horas : PasoExtend(sid, horas)
                   \/ PasoApply(sid))
                    => ~resultado'.ok]_vars

\* validate_session has just removed a session that had not expired: its
\* status was RateLimited
C20_Witness ==
  /\ resultado.op = "validate" /\ ~resultado.ok
  /\ resultado.log = "invalid_" \o LIMITADA_POR_VELOCIDAD
  /\ resultado.sid < siguiente_id
  /\ resultado.sid \notin DOMAIN sesiones
  /\ resultado.sid \notin DOMAIN seguimiento_velocidad
  /\ ahora < VidaSegundos

\* ------------------------------------------------------------------------
\* Properties of the sliding window (SpecVentana, Spec)
\* ------------------------------------------------------------------------
\* the interactions accepted for sid in the 60 seconds that end at t
AceptadasHasta(sid, t) ==
  {i \in DOMAIN traza.aceptadas[sid] :
     /\ traza.aceptadas[sid][i] > t - SegundosVentana
     /\ traza.aceptadas[sid][i] <= t}

\* C21: for every session id and every instant t, at most limite_por_minuto
\* interactions were accepted in the 60 seconds that end at t, wherever t
\* falls in its wall-clock minute.
C21_VentanaMovil ==
  \A sid \in Ids, t \in InstantesVentana :
    Cardinality(AceptadasHasta(sid, t)) <= limite_por_minuto

\* a burst in the last second of a minute filled the window, and the call
\* made in the first second of the next minute has just been refused
C21_Witness ==
  \E sid \in DOMAIN sesiones :
    /\ resultado.op = "track" /\ resultado.sid = sid /\ ~resultado.ok
    /\ resultado.log = "rate_limit_exceeded"
    /\ ahora = SegundosVentana
    /\ Len(traza.aceptadas[sid]) = limite_por_minuto
    /\ \A i \in DOMAIN traza.aceptadas[sid] :
         traza.aceptadas[sid][i] = SegundosVentana - 1

\* C22 as claimed: the sliding-window check leaves in the rate window exactly
\* the timestamps that are at most 60 seconds old (one exactly 60 seconds old
\* is kept and counted) and passes iff fewer than limite_por_minuto remain.
C22_DescartaMasViejas ==
  [][\A sid \in Ids :
       (PasoApply(sid) /\ Vigente(sid))
         => /\ seguimiento_velocidad'[sid] =
                 SelectSeq(seguimiento_velocidad[sid],
                           LAMBDA req : req >= ahora - SegundosVentana)
            /\ resultado'.ok
                 <=> Len(seguimiento_velocidad'[sid]) < limite_por_minuto]_vars

\* C23: on a valid session apply_rate_limiting answers allowed iff a
\* track_interaction made in the same state at the same instant is not refused
\* for the rate limit; when allowed, remaining is limite_por_minuto minus the
\* number of the window's timestamps newer than now - 60 s, and at least 1.
C23_SondaDeAcuerdo ==
  [][\A sid \in Ids, tipo \in Tipos :
       (PasoApply(sid) /\ Vigente(sid))
         => /\ resultado'.ok
                 <=> track_interaction(sesiones, seguimiento_velocidad, sid,
                                       tipo, ahora).log # "rate_limit_exceeded"
            /\ resultado'.ok =>
                 /\ resultado'.n =
                      limite_por_minuto
                        - Len(SelectSeq(seguimiento_velocidad[sid],
                                LAMBDA req : req > ahora - SegundosVentana))
                 /\ resultado'.n >= 1]_vars

\* after the first minute a probe has just answered allowed with less than
\* the full allowance left
C23_Witness ==
  \E sid \in DOMAIN sesiones :
    /\ resultado.op = "apply" /\ resultado.sid = sid /\ resultado.ok
    /\ resultado.n = limite_por_minuto - 1
    /\ Len(seguimiento_velocidad[sid]) = 1
    /\ sesiones[sid].contador_interacciones >= 2
    /\ ahora > SegundosVentana

\* C24: the answer of apply_rate_limiting carries a number as retry_after iff
\* the call refuses a valid session for the rate limit (not for an invalid or
\* missing session, not when it allows); the number is then the seconds from
\* now to the start of the next wall-clock minute, between 0 and 60.
C24_EsperaHastaElMinuto ==
  [][\A sid \in Ids :
       PasoApply(sid)
         => LET r == retry_after(resultado') IN
            /\ r.numero
                 <=> /\ Vigente(sid)
                     /\ Len(SelectSeq(seguimiento_velocidad[sid],
                               LAMBDA req : req > ahora - SegundosVentana))
                          >= limite_por_minuto
            /\ r.numero =>
                 /\ ~resultado'.ok
                 /\ r.valor =
                      ((ahora \div SegundosVentana) + 1) * SegundosVentana
                        - ahora
                 /\ r.valor \in 0..SegundosVentana]_vars

\* a probe made one second into a minute has just been refused for the rate
\* limit and reports the seconds that are left of that minute
C24_Witness ==
  \E sid \in DOMAIN sesiones :
    /\ resultado.op = "apply" /\ resultado.sid = sid /\ ~resultado.ok
    /\ retry_after(resultado).numero
    /\ retry_after(resultado).valor = SegundosVentana - 1
    /\ ahora = SegundosVentana + 1

\* a step of SpecVentana is the call named
PasoTrackVentana(sid, tipo) ==
  /\ resultado'.op = "track" /\ resultado'.sid = sid
  /\ TrackVentana(sid, tipo)
PasoApplyVentana(sid) ==
  /\ resultado'.op = "apply" /\ resultado'.sid = sid
  /\ ApplyVentana(sid)

\* C25 as claimed: a caller whose probe was refused for the rate limit, who
\* makes no call until the retry_after seconds it was told have passed and
\* then calls again on the same session id (still registered, before expira_en
\* and below the interaction cap), is accepted.
C25_ReintentoAceptado ==
  [][\A sid \in Ids, tipo \in Tipos :
       (/\ resultado.op = "apply" /\ resultado.sid = sid
        /\ resultado.log = "rate_limit_exceeded"
        /\ traza.rechazo.sid = sid
        /\ ahora >= traza.rechazo.en + traza.rechazo.espera
        /\ sid \in DOMAIN sesiones
        /\ ahora <= sesiones[sid].expira_en
        /\ sesiones[sid].contador_interacciones < max_interacciones
        /\ (PasoTrackVentana(sid, tipo) \/ PasoApplyVentana(sid)))
         => resultado'.ok]_vars

\* ------------------------------------------------------------------------
\* Properties of the operations (Spec): refusals and statistics
\* ------------------------------------------------------------------------
\* sid was handed out and is not an Active session of the registry any more
Terminada(sid) ==
  /\ sid < siguiente_id
  /\ sid \in DOMAIN sesiones => sesiones[sid].estado # ACTIVA

\* C26: a track_interaction refused for the interaction cap leaves the session
\* non-Active; a session id that is evicted or non-Active stays so whatever
\* call or clock step follows, and no track_interaction on it is accepted.
C26_TopeTerminal ==
  [][\A sid \in Ids, tipo \in Tipos :
       /\ (PasoTrack(sid, tipo)
            /\ resultado'.log = "interaction_limit_exceeded")
           => Terminada(sid)'
       /\ Terminada(sid)
           => /\ Terminada(sid)'
              /\ ~(PasoTrack(sid, tipo) /\ resultado'.ok)]_vars

\* a track_interaction made more than a minute into the run on a session that
\* an earlier refusal had left RateLimited has just been refused, and the
\* session is gone from the registry
C26_Witness ==
  /\ resultado.op = "track" /\ ~resultado.ok
  /\ resultado.log = "invalid_" \o LIMITADA_POR_VELOCIDAD
  /\ resultado.sid < siguiente_id
  /\ resultado.sid \notin DOMAIN sesiones
  /\ ahora > SegundosVentana

\* ------------------------------------------------------------------------
\* Properties of the request layer (SpecMiddleware)
\* ------------------------------------------------------------------------
\* the answer that names the check of track_interaction that failed
CodigoDe(log) ==
  CASE log = "rate_limit_exceeded" -> LIMITE_VELOCIDAD
    [] log = "interaction_limit_exceeded" -> LIMITE_INTERACCIONES
    [] OTHER -> SESSION_INVALIDA

\* C27 as claimed: when track_interaction refuses, the request layer answers
\* with the outcome of the check that failed: a missing or invalid session, a
\* rate-limit hit and an interaction-cap hit are three different answers.
C27_RazonDelRechazo ==
  [][\A h \in Hilos :
       (/\ resultado'.op = "registrar_interaccion"
        /\ RegistrarInteraccion(h)
        /\ ~resultado'.ok)
         => resultado'.log =
              CodigoDe(track_interaction(sesiones, seguimiento_velocidad,
                                         llamada[h].sid, llamada[h].tipo,
                                         ahora).log)]_vars

\* ------------------------------------------------------------------------
\* Properties of get_session_stats (Spec)
\* ------------------------------------------------------------------------
\* the sessions of the registry whose stored status is e
ConEstado(e) == {sid \in DOMAIN sesiones : sesiones[sid].estado = e}
\* the sessions of the registry whose expiry has passed
Vencidas == {sid \in DOMAIN sesiones : ahora > sesiones[sid].expira_en}

\* C28: get_session_stats changes no session and no rate window (no expiry
\* check is run), total is the number of registry entries, active, expired
\* and rate_limited are the numbers of entries that hold that status, and
\* active + expired + rate_limited <= total, with equality when no session is
\* Blocked.
C28_InstantaneaSoloLectura ==
  [][PasoStats =>
       LET e == estadisticas(sesiones, seguimiento_velocidad) IN
       /\ sesiones' = sesiones
       /\ seguimiento_velocidad' = seguimiento_velocidad
       /\ resultado'.n = e.total_sessions
       /\ e.total_sessions = Cardinality(DOMAIN sesiones)
       /\ e.active_sessions = Cardinality(ConEstado(ACTIVA))
       /\ e.expired_sessions = Cardinality(ConEstado(EXPIRADA))
       /\ e.rate_limited_sessions
            = Cardinality(ConEstado(LIMITADA_POR_VELOCIDAD))
       /\ e.active_sessions + e.expired_sessions + e.rate_limited_sessions
            <= e.total_sessions
       /\ ConEstado(BLOQUEADA) = {}
            => e.active_sessions + e.expired_sessions
                 + e.rate_limited_sessions = e.total_sessions]_vars

\* get_session_stats has just returned with a RateLimited session in the
\* registry, which it counted and left where it was
C28_Witness ==
  /\ resultado.op = "stats"
  /\ resultado.n >= 1
  /\ ConEstado(LIMITADA_POR_VELOCIDAD) # {}
  /\ estadisticas(sesiones, seguimiento_velocidad).rate_limited_sessions >= 1

\* C29 as claimed: when get_session_stats is called, every session of the
\* registry whose expiry has passed is tagged Expired, and is counted under
\* expired_sessions and not under active_sessions.
C29_VencidaCuentaExpirada ==
  [][PasoStats =>
       LET e == estadisticas(sesiones, seguimiento_velocidad) IN
       /\ \A sid \in Vencidas : sesiones[sid].estado = EXPIRADA
       /\ e.expired_sessions >= Cardinality(Vencidas)
       /\ e.active_sessions
            <= Cardinality(DOMAIN sesiones) - Cardinality(Vencidas)]_vars

\* ------------------------------------------------------------------------
\* Properties of the sweep among the callers' threads (SpecLock)
\* ------------------------------------------------------------------------
\* the sessions of the registry that are invalid at instant now
Invalidas(now) ==
  {sid \in DOMAIN sesiones :
     ~(sesiones[sid].estado = ACTIVA /\ now <= sesiones[sid].expira_en)}

\* C30: whatever the other threads' calls are doing, a sweep that finishes
\* has removed every session that was invalid when it examined the registry,
\* each with its rate window, has returned the number of registry entries it
\* removed, and has left every session that was valid then, and its window,
\* as they were.
C30_BarridoConcurrente ==
  [][\A h \in Hilos :
       (/\ resultado'.op = "cleanup"
        /\ pc[h] = "leido" /\ llamada[h].op = "cleanup"
        /\ Terminar(h))
         => LET malas == Invalidas(llamada[h].visto.now) IN
            /\ DOMAIN sesiones' = (DOMAIN sesiones) \ malas
            /\ DOMAIN seguimiento_velocidad'
                 = (DOMAIN seguimiento_velocidad) \ malas
            /\ resultado'.n = Cardinality(malas)
            /\ resultado'.n = Cardinality(DOMAIN sesiones)
                               - Cardinality(DOMAIN sesiones')
            /\ \A sid \in (DOMAIN sesiones) \ malas :
                 /\ sesiones'[sid] = sesiones[sid]
                 /\ seguimiento_velocidad'[sid] = seguimiento_velocidad[sid]]_vars

\* a sweep has just removed a session while another thread's call was
\* waiting for the lock
C30_Witness ==
  /\ resultado.op = "cleanup" /\ resultado.n >= 1
  /\ \E h \in Hilos : pc[h] = "esperando"

\* ------------------------------------------------------------------------
\* Properties of track_interaction as one step (Spec)
\* ------------------------------------------------------------------------
\* after the step every registered session's rate window holds at most as
\* many timestamps as the session's counter says
VentanaBajoContador ==
  \A x \in DOMAIN sesiones' :
    /\ x \in DOMAIN seguimiento_velocidad'
    /\ Len(seguimiento_velocidad'[x]) <= sesiones'[x].contador_interacciones

\* C31 as claimed: in every state another caller can see, each session's rate
\* window holds at most interaction_count timestamps, and a track_interaction
\* that is refused leaves the session registered with its counter and the
\* timestamps of its rate window as they were.
C31_RechazoIntacto ==
  [][/\ VentanaBajoContador
     /\ \A sid \in Ids, tipo \in Tipos :
          (PasoTrack(sid, tipo) /\ ~resultado'.ok /\ sid \in DOMAIN sesiones)
            => /\ sid \in DOMAIN sesiones'
               /\ sesiones'[sid].contador_interacciones
                    = sesiones[sid].contador_interacciones
               /\ seguimiento_velocidad'[sid] = seguimiento_velocidad[sid]]_vars

\* C31 amended: in every state another caller can see, each session's rate
\* window holds at most interaction_count timestamps; a track_interaction that
\* is refused on a valid session leaves its counter as it was and its rate
\* window with, in order, exactly its timestamps newer than now - 60 s, none
\* added; refused on a registered session that is expired or not Active, it
\* removes the session and its rate window.
C31_RechazoSinAvance ==
  [][/\ VentanaBajoContador
     /\ \A sid \in Ids, tipo \in Tipos :
          (PasoTrack(sid, tipo) /\ ~resultado'.ok /\ sid \in DOMAIN sesiones)
            => IF Vigente(sid)
                 THEN /\ sid \in DOMAIN sesiones'
                      /\ sesiones'[sid].contador_interacciones
                           = sesiones[sid].contador_interacciones
                      /\ seguimiento_velocidad'[sid] =
                           SelectSeq(seguimiento_velocidad[sid],
                                     LAMBDA req : req > ahora - SegundosVentana)
                 ELSE /\ sid \notin DOMAIN sesiones'
                      /\ sid \notin DOMAIN seguimiento_velocidad']_vars

\* a track_interaction has just been refused at the cap on a session whose
\* accepted interactions are all older than a minute: the counter stands at
\* the cap and the rate window is empty
C31_Witness ==
  \E sid \in DOMAIN sesiones :
    /\ resultado.op = "track" /\ resultado.sid = sid /\ ~resultado.ok
    /\ resultado.log = "interaction_limit_exceeded"
    /\ sesiones[sid].contador_interacciones = max_interacciones
    /\ seguimiento_velocidad[sid] = <<>>

\* the timestamps of sid's rate window that are less than 60 seconds old
MasNuevas(sid) ==
  SelectSeq(seguimiento_velocidad[sid],
            LAMBDA req : req > ahora - SegundosVentana)

\* C32: track_interaction checks validity first, then the rate limit, then
\* the interaction cap.  Called on an id that is absent, expired or not
\* Active, it is refused as not found or invalid and no rate window is read:
\* every window that remains is as it was.  Called on a valid session over
\* the rate limit, it is refused for the rate limit, at the cap or not, and
\* the counter is left alone.  It is refused for the cap only on a valid
\* session that is within the rate limit.
C32_OrdenDeControles ==
  [][\A sid \in Ids, tipo \in Tipos :
       PasoTrack(sid, tipo)
         => /\ ~Vigente(sid)
                 => /\ ~resultado'.ok
                    /\ resultado'.log \notin
                         {"rate_limit_exceeded", "interaction_limit_exceeded"}
                    /\ sid \notin DOMAIN seguimiento_velocidad'
                    /\ \A x \in DOMAIN seguimiento_velocidad' :
                         /\ x \in DOMAIN seguimiento_velocidad
                         /\ seguimiento_velocidad'[x]
                              = seguimiento_velocidad[x]
            /\ (Vigente(sid) /\ Len(MasNuevas(sid)) >= limite_por_minuto)
                 => /\ ~resultado'.ok
                    /\ resultado'.log = "rate_limit_exceeded"
                    /\ sesiones'[sid].contador_interacciones
                         = sesiones[sid].contador_interacciones
            /\ resultado'.log = "interaction_limit_exceeded"
                 => /\ Vigente(sid)
                    /\ Len(MasNuevas(sid)) < limite_por_minuto
                    /\ sesiones[sid].contador_interacciones
                         >= max_interacciones]_vars

\* a track_interaction has just been refused for the rate limit on a session
\* whose counter stands at the cap
C32_Witness ==
  \E sid \in DOMAIN sesiones :
    /\ resultado.op = "track" /\ resultado.sid = sid /\ ~resultado.ok
    /\ resultado.log = "rate_limit_exceeded"
    /\ sesiones[sid].contador_interacciones = max_interacciones
    /\ Len(seguimiento_velocidad[sid]) >= limite_por_minuto

\* ------------------------------------------------------------------------
\* Properties of the requests (SpecMiddleware)
\* ------------------------------------------------------------------------
\* the step takes thread h's request to stage p
Llega(h, p) == pc'[h] = p /\ pc[h] # p

\* C33: the handler of a chat request runs only after validate_session
\* returned a session, then apply_rate_limiting reported allowed, then
\* track_interaction returned accepted, each for that request and at the step
\* that made the call; a request for which one of the three fails is answered
\* 401 or 429 at that step and is over: its handler does not run.
C33_PasoAPaso ==
  [][\A h \in Hilos :
       /\ Llega(h, "validada")
            => /\ pc[h] = "idle"
               /\ validate_session(sesiones, seguimiento_velocidad,
                                   llamada'[h].sid, ahora).ok
       /\ Llega(h, "permitida")
            => /\ pc[h] = "validada"
               /\ llamada'[h] = llamada[h]
               /\ apply_rate_limiting(sesiones, seguimiento_velocidad,
                                      llamada[h].sid, ahora).ok
       /\ Llega(h, "registrada")
            => /\ pc[h] = "permitida"
               /\ llamada'[h] = llamada[h]
               /\ track_interaction(sesiones, seguimiento_velocidad,
                                    llamada[h].sid, llamada[h].tipo, ahora).ok
       /\ (resultado'.op = "handler" /\ Handler(h))
            => pc[h] = "registrada"
       /\ (resultado'.op \in {"requiere_sesion_valida",
                             "registrar_interaccion"}
           /\ ~resultado'.ok /\ pc'[h] # pc[h])
            => /\ pc'[h] = "idle"
               /\ resultado'.n \in {401, 429}
       /\ Llega(h, "idle")
            => \/ resultado'.op = "handler" /\ resultado'.n = 200
               \/ ~resultado'.ok /\ resultado'.n \in {401, 429}]_vars

\* the handler of a request has just run on a session that holds the
\* request's interaction, while another request is between its calls
C33_Witness ==
  /\ resultado.op = "handler" /\ resultado.n = 200
  /\ resultado.sid \in DOMAIN sesiones
  /\ sesiones[resultado.sid].contador_interacciones >= 1
  /\ \E h \in Hilos : pc[h] \in {"validada", "permitida"}

\* C34 as claimed: whatever the interleaving of the requests on a session, a
\* request that apply_rate_limiting allowed is not refused for the rate limit
\* by its own track_interaction, so no session is made RateLimited by
\* requests that the probe admitted.
C34_SondaDecide ==
  [][\A h \in Hilos :
       (/\ resultado'.op = "registrar_interaccion"
        /\ RegistrarInteraccion(h))
         => LET e == track_interaction(sesiones, seguimiento_velocidad,
                                       llamada[h].sid, llamada[h].tipo,
                                       ahora) IN
            /\ e.log # "rate_limit_exceeded"
            /\ \A sid \in DOMAIN sesiones :
                 (sesiones[sid].estado = ACTIVA /\ sid \in DOMAIN sesiones'
                  /\ sesiones[sid].contador_interacciones < max_interacciones)
                   => sesiones'[sid].estado = ACTIVA]_vars

\* ------------------------------------------------------------------------
\* Properties of the counter and of the rate windows (Spec)
\* ------------------------------------------------------------------------
\* the step is a track_interaction on sid that was accepted
PasoAceptada(sid) ==
  /\ resultado'.op = "track" /\ resultado'.sid = sid /\ resultado'.ok
  /\ \E tipo \in Tipos : TrackInteraction(sid, tipo)

\* C35: a session enters the registry with a counter of 0, by create_session;
\* every step leaves the counter of a session that stays registered as it
\* was, but for an accepted track_interaction on that session, which adds
\* exactly 1.  So the counter is the number of accepted interactions, never
\* decreases, and no other operation changes it.
C35_CuentaAceptadas ==
  [][\A sid \in Ids :
       /\ (sid \notin DOMAIN sesiones /\ sid \in DOMAIN sesiones')
            => /\ resultado'.op = "create" /\ resultado'.sid = sid
               /\ sesiones'[sid].contador_interacciones = 0
       /\ (sid \in DOMAIN sesiones /\ sid \in DOMAIN sesiones')
            => sesiones'[sid].contador_interacciones
                 = sesiones[sid].contador_interacciones
                     + (IF PasoAceptada(sid) THEN 1 ELSE 0)]_vars

\* extend_session has just succeeded on a session whose counter stands at the
\* cap after accepted interactions in two different minutes
C35_Witness ==
  \E sid \in DOMAIN sesiones :
    /\ resultado.op = "extend" /\ resultado.sid = sid /\ resultado.ok
    /\ sesiones[sid].contador_interacciones = max_interacciones
    /\ sesiones[sid].estado = ACTIVA
    /\ ahora >= SegundosVentana

\* the step is a call of validate_session, track_interaction,
\* apply_rate_limiting or extend_session on sid
PasoSobre(sid) ==
  \/ PasoValidate(sid)
  \/ \E tipo \in Tipos : PasoTrack(sid, tipo)
  \/ PasoApply(sid)
  \/ \E horas \in Horas : PasoExtend(sid, horas)

\* C36: validate_session, track_interaction, apply_rate_limiting and
\* extend_session called with an id that is not in the registry are refused
\* (not found, or reason invalid_session from the probe) and leave the registry and the rate windows as they were; no
\* rate window is made for that id.
C36_IdDesconocido ==
  [][\A sid \in Ids :
       (sid \notin DOMAIN sesiones /\ PasoSobre(sid))
         => /\ ~resultado'.ok
            /\ resultado'.log = IF resultado'.op = "apply"
                                  THEN "invalid_session" ELSE "not_found"
            /\ sesiones' = sesiones
            /\ seguimiento_velocidad' = seguimiento_velocidad
            /\ sid \notin DOMAIN seguimiento_velocidad']_vars

\* apply_rate_limiting has just answered invalid_session for the id of a
\* session that was created and has been removed since
C36_Witness ==
  /\ resultado.op = "apply" /\ ~resultado.ok
  /\ resultado.log = "invalid_session"
  /\ resultado.sid < siguiente_id
  /\ resultado.sid \notin DOMAIN sesiones
  /\ resultado.sid \notin DOMAIN seguimiento_velocidad

\* the timestamps of w are in non-decreasing order
EnOrden(w) == \A i \in 1..(Len(w) - 1) : w[i] <= w[i + 1]

\* C37: after every step each rate window holds at most limite_por_minuto
\* timestamps, in non-decreasing order; a window grows only by an accepted
\* track_interaction, which found fewer than limite_por_minuto timestamps in
\* the pruned window and appended the current instant to it.
C37_VentanaAcotada ==
  [][/\ \A sid \in DOMAIN seguimiento_velocidad' :
          /\ Len(seguimiento_velocidad'[sid]) <= limite_por_minuto
          /\ EnOrden(seguimiento_velocidad'[sid])
     /\ \A sid \in (DOMAIN seguimiento_velocidad)
                     \cap (DOMAIN seguimiento_velocidad') :
          Len(seguimiento_velocidad'[sid]) > Len(seguimiento_velocidad[sid])
            => /\ PasoAceptada(sid)
               /\ Len(MasNuevas(sid)) < limite_por_minuto
               /\ seguimiento_velocidad'[sid]
                    = Append(MasNuevas(sid), ahora)]_vars

\* a rate window is full and holds timestamps of two different instants
C37_Witness ==
  \E sid \in DOMAIN seguimiento_velocidad :
    /\ Len(seguimiento_velocidad[sid]) = limite_por_minuto
    /\ seguimiento_velocidad[sid][1]
         < seguimiento_velocidad[sid][limite_por_minuto]

\* ------------------------------------------------------------------------
\* Properties of app.py's session store and debounce (SpecApp)
\* ------------------------------------------------------------------------
\* thread h's request is answered 429 by the debounce at this step
PasoDebounce(h) ==
  /\ peticiones[h].pc = "limitar"
  /\ peticiones'[h].pc = "idle"
  /\ AskLimitar(h)

\* C38 as claimed: a request is answered 429 only if a request on its session
\* was served less than 2 seconds before it (so not the request that makes
\* the session), and the request answered 429 leaves the turns and
\* last_interaction of every session record as they were.
C38_SoloTrasServida ==
  [][\A h \in Hilos :
       PasoDebounce(h)
         => LET d == registros[peticiones[h].ref] IN
            /\ \E i \in DOMAIN d.turns :
                 /\ ahora - d.turns[i] >= 0
                 /\ ahora - d.turns[i] < SegundosDebounce
            /\ registros' = registros
            /\ sessions' = sessions]_vars

\* C39 as claimed: a request that reaches the debounce 2 seconds or more
\* after its session's last_interaction goes on to be served, however long
\* the gap.
C39_DosSegundosBastan ==
  [][\A h \in Hilos :
       (/\ peticiones[h].pc = "limitar"
        /\ AskLimitar(h)
        /\ ahora - registros[peticiones[h].ref].last_interaction
             >= SegundosDebounce)
         => peticiones'[h].pc = "generar"]_vars

\* C40 as claimed: whatever the interleaving of the requests on a session id,
\* a session record is stored for an id only when sessions holds none for it,
\* and the record a request adds its turn to is the one sessions holds for
\* the request's id.
C40_UnRegistroPorClave ==
  [][\A h \in Hilos :
       /\ (peticiones[h].pc = "crear" /\ AskCrear(h))
            => peticiones[h].sid \notin DOMAIN sessions
       /\ (peticiones[h].pc = "generar" /\ AskResponder(h))
            => /\ peticiones[h].sid \in DOMAIN sessions
               /\ sessions[peticiones[h].sid] = peticiones[h].ref]_vars

====
